---- MODULE Spec2Model ----
(***************************************************************************)
(* Conversation memory of the chat relay in src/app.py: the Qdrant-backed  *)
(* Primary Store, the in-process Fallback Store (memory_fallback) and the  *)
(* three operations get_chat_history, store_message, clear_chat_memory,    *)
(* plus get_status_message and the start-up code that sets qdrant_client.  *)
(***************************************************************************)
EXTENDS Integers, Sequences, FiniteSets, TLC

\* ------------------------------------------------------------------ bounds
\* store_message calls made in one behaviour of Spec
MaxAppends == 2
\* largest limit passed to get_chat_history
MaxLimit == 2
\* store_message calls made in one behaviour of SpecScroll
MaxScrollAppends == 3
\* regular messages received in one behaviour of SpecWebhook
MaxMessages == 2
\* calls made in one behaviour of SpecThreads
MaxThreadOps == 2
\* store_message calls made in one behaviour of SpecCap
MaxCapAppends == 22
\* successful upserts in one behaviour of SpecCap
MaxCapPoints == 1

\* ------------------------------------------------------------------ inputs
\* chat identifiers as Telegram sends them (integers)
Chats == {1, 2}
\* the role and content of the messages stored (telegram_webhook, lines 245, 251)
Turns == {<<"user", "hi">>, <<"assistant", "hello">>}
Limits == 1..MaxLimit

\* the slice bound of line 133
FALLBACK_CAPACITY == 20

\* str(chat_id) for the integer identifiers of Chats
Str(chat_id) == CASE chat_id = 1 -> "1" [] chat_id = 2 -> "2"

VARIABLES
    pc,               \* "startup" before lines 30-56 ran, "serving" after
    QDRANT_ENV,       \* QDRANT_URL and QDRANT_API_KEY are both set
    qdrant_client,    \* "None" or "client"
    points,           \* the collection: points in upsert order
    memory_fallback,  \* dict: str(chat_id) -> list of {role, content}
    now,              \* datetime.now() as read for the latest stored point
    ret,              \* the last operation, its inputs and what it returned
    appended,         \* history: per chat, the appends since its last clear,
                      \*   each with the store it went to
    everAppended,     \* history: per chat, every message ever appended to it
    nAppends,         \* history: store_message calls so far
    initFailed,       \* history: the start-up try block raised
    lists,            \* the list objects of the dict and of the callers: id -> items
    refs,             \* memory_fallback as Python holds it: key -> id of its list
    handler,          \* telegram_webhook: its position and its locals
    prompt,           \* the messages of the last completion call (lines 265-274)
    hsnap,            \* history: the latest regular message, the stores when it
                      \*   came in, the window get_chat_history returned for
                      \*   it, how far its handling got and how it ended
    threads,          \* requests served at once: position and locals of each
    solo              \* history: the dict had every call run on its own, the
                      \*   chats two calls overlapped on, the chats cleared,
                      \*   whether calls for different chats overlapped

\* what a call of one operation on its own leaves alone: the identities of the
\* lists, the locals of telegram_webhook and of the threads
callVars == <<lists, refs, handler, prompt, hsnap, threads, solo>>

\* what the steps of telegram_webhook between two calls leave alone
storeVars == <<pc, QDRANT_ENV, qdrant_client, points, memory_fallback, now, ret,
               appended, everAppended, nAppends, initFailed>>

vars == <<pc, QDRANT_ENV, qdrant_client, points, memory_fallback, now, ret,
          appended, everAppended, nAppends, initFailed, lists, refs, handler,
          prompt, hsnap, threads, solo>>

\* ------------------------------------------------------------------ helpers
Min(a, b) == IF a <= b THEN a ELSE b

\* s[:n] in place of s[-n:]
FirstN(s, n) == IF Len(s) <= n THEN s ELSE SubSeq(s, 1, n)

\* Python s[-n:] for n >= 1
LastN(s, n) == IF Len(s) <= n THEN s ELSE SubSeq(s, Len(s) - n + 1, Len(s))

\* the call outside any try block: the exception leaves the function
TryNoExcept(outcome) == outcome

\* try: ... except Exception: a raised call is handled inside the function
TryExcept(outcome) == IF outcome = "error" THEN "handled" ELSE outcome

\* an operation that drops the handle once a Primary Store call raised
HandleDropped(client, outcome) == IF outcome = "handled" THEN "None" ELSE client

\* qdrant_client after an operation: no function assigns the module global
\* (lines 58-190 hold no "global qdrant_client")
HandleAfter(client, outcome) == client

Message(role, content) == [role |-> role, content |-> content]

Point(chat_id, role, content, timestamp) ==
    [chat_id |-> Str(chat_id), role |-> role, content |-> content,
     timestamp |-> timestamp]

NoRet == [op |-> "none", chat |-> 0, role |-> "", content |-> "", limit |-> 0,
          value |-> << >>, status |-> "", primary |-> "none", raised |-> FALSE]

\* telegram_webhook between two requests
Idle == [step |-> 0, chat |-> 0, text |-> "", history |-> 0, reply |-> ""]

NoSnap == [n |-> 0, chat |-> 0, text |-> "", outcome |-> "none",
           fetched |-> FALSE, completed |-> FALSE, points |-> << >>,
           fallback |-> << >>, appended |-> << >>, window |-> << >>]

\* the requests served at once (app.run serves each request in its own thread)
Threads == {1, 2}

\* a thread that serves no request
Resting == [at |-> "rest", op |-> "none", chat |-> 0, msg |-> << >>, ref |-> 0]

\* ------------------------------------------------------------------ start-up
Init ==
    /\ pc = "startup"
    /\ QDRANT_ENV \in BOOLEAN
    /\ qdrant_client = "None"
    /\ points = << >>
    /\ memory_fallback = << >>
    /\ now = 0
    /\ ret = NoRet
    /\ appended = [c \in Chats |-> << >>]
    /\ everAppended = [c \in Chats |-> {}]
    /\ nAppends = 0
    /\ initFailed = FALSE
    /\ lists = << >>
    /\ refs = << >>
    /\ handler = Idle
    /\ prompt = << >>
    /\ hsnap = NoSnap
    /\ threads = [t \in Threads |-> Resting]
    /\ solo = [fallback |-> << >>, raced |-> {}, cleared |-> {}, overlapped |-> FALSE]

\* the except branch without line 51: the handle assigned at line 34 stays
InitClientKept(ok) == "client"

\* the handle after the try block of lines 33-51
InitClient(ok) == IF TryExcept(IF ok THEN "ok" ELSE "error") = "ok"
                  THEN "client" ELSE "None"

\* lines 30-56: ok is whether QdrantClient(...), get_collections and the
\* collection/index creation all succeeded
Startup(ok) ==
    /\ pc = "startup"
    /\ pc' = "serving"
    /\ qdrant_client' = IF QDRANT_ENV THEN InitClient(ok) ELSE "None"
    /\ initFailed' = (QDRANT_ENV /\ ~ok)
    /\ memory_fallback' = << >>
    /\ ret' = [NoRet EXCEPT !.op = "startup",
                            !.primary = IF ~QDRANT_ENV THEN "none"
                                        ELSE IF ok THEN "ok" ELSE "error"]
    /\ UNCHANGED <<QDRANT_ENV, points, now, appended, everAppended, nAppends>>

\* ------------------------------------------------------------------ Fallback Store
\* insert(0, msg) in place of append(msg)
FallbackStoreFront(mf, chat_key, msg) ==
    LET d == IF chat_key \in DOMAIN mf THEN mf ELSE mf @@ (chat_key :> << >>)
    IN  [d EXCEPT ![chat_key] = LastN(<<msg>> \o d[chat_key], FALLBACK_CAPACITY)]

\* lines 128-133: create the list on first use, append, keep the last 20
FallbackStore(mf, chat_key, msg) ==
    LET d == IF chat_key \in DOMAIN mf THEN mf ELSE mf @@ (chat_key :> << >>)
    IN  [d EXCEPT ![chat_key] = LastN(Append(d[chat_key], msg), FALLBACK_CAPACITY)]

\* memory_fallback.get(chat_id, []): the integer is no key of the dict
FallbackGetUnkeyed(mf, chat_key) == << >>

\* line 95: memory_fallback.get(str(chat_id), [])
FallbackGet(mf, chat_key) == IF chat_key \in DOMAIN mf THEN mf[chat_key] ELSE << >>

\* clear_chat_memory without lines 156-157
FallbackClearSkipped(mf, chat_key) == mf

\* every list reset in place of the one of chat_key
FallbackClearAll(mf, chat_key) == [k \in DOMAIN mf |-> << >>]

\* lines 156-157 without the test of line 156
FallbackClearCreate(mf, chat_key) ==
    [k \in DOMAIN mf \cup {chat_key} |-> IF k = chat_key THEN << >> ELSE mf[k]]

\* lines 156-157: reset an existing entry, create none
FallbackClear(mf, chat_key) ==
    IF chat_key \in DOMAIN mf THEN [mf EXCEPT ![chat_key] = << >>] ELSE mf

\* ------------------------------------------------------------------ list objects
\* memory_fallback maps a key to a list OBJECT: a name bound to the same object
\* sees what list.append does to it (line 131), while the slice of line 133
\* builds a new object and binds the key to it.
Range(f) == {f[k] : k \in DOMAIN f}

\* the identity of the next list object built
NewRef(h) == CHOOSE r \in 1..(Cardinality(DOMAIN h) + 1) :
                 r \notin DOMAIN h /\ \A q \in 1..(r - 1) : q \in DOMAIN h

\* [] or a slice: a new list object holding items
ListNew(h, items) == h @@ (NewRef(h) :> items)

\* every key bound to one and the same list object
ListAppendAll(h, r, msg) == [q \in DOMAIN h |-> Append(h[q], msg)]

\* list.append(msg) on the object r, in place (line 131)
ListAppend(h, r, msg) == [h EXCEPT ![r] = Append(@, msg)]

\* memory_fallback[key] = <object r> (lines 130, 133, 157)
DictSet(d, key, r) == [k \in DOMAIN d \cup {key} |-> IF k = key THEN r ELSE d[k]]

\* the objects some name in roots still refers to
Live(h, roots) == [r \in DOMAIN h \cap roots |-> h[r]]

\* the dict as key -> items
RefView(h, d) == [k \in DOMAIN d |-> h[d[k]]]

\* lines 129-133 run by one caller without interruption
RefStore(h, d, key, msg) ==
    LET h1 == IF key \in DOMAIN d THEN h ELSE ListNew(h, << >>)
        d1 == IF key \in DOMAIN d THEN d ELSE DictSet(d, key, NewRef(h))
        h2 == ListAppend(h1, d1[key], msg)
    IN  [lists |-> ListNew(h2, LastN(h2[d1[key]], FALLBACK_CAPACITY)),
         refs  |-> DictSet(d1, key, NewRef(h2))]

\* lines 156-157 run by one caller without interruption
RefClear(h, d, key) ==
    IF key \in DOMAIN d
    THEN [lists |-> ListNew(h, << >>), refs |-> DictSet(d, key, NewRef(h))]
    ELSE [lists |-> h, refs |-> d]

\* ------------------------------------------------------------------ Primary Store
\* a scroll without scroll_filter
MatchingAny(pts, chat_key) == 1..Len(pts)

\* the chat_id filter of lines 63-70: indices of the matching points
Matching(pts, chat_key) == {i \in 1..Len(pts) : pts[i].chat_id = chat_key}

\* the sequences of m different elements of I
RECURSIVE Orders(_, _)
Orders(I, m) ==
    IF m = 0 THEN {<< >>}
    ELSE UNION {{<<i>> \o s : s \in Orders(I \ {i}, m - 1)} : i \in I}

\* qdrant scroll (lines 71-77): at most lim of the matching points, in the order
\* of their point ids, which are uuid4 values (line 106): any lim of them in any
\* order
Scroll(pts, chat_key, lim) ==
    LET I == Matching(pts, chat_key)
    IN  {[j \in 1..Len(s) |-> pts[s[j]]] : s \in Orders(I, Min(lim, Cardinality(I)))}

\* list.sort(key=timestamp) is stable: x goes after the entries with key <= its own
RECURSIVE InsertByTimestamp(_, _)
InsertByTimestamp(sorted, x) ==
    IF sorted = << >> THEN <<x>>
    ELSE IF sorted[Len(sorted)].timestamp <= x.timestamp THEN Append(sorted, x)
    ELSE Append(InsertByTimestamp(SubSeq(sorted, 1, Len(sorted) - 1), x),
                sorted[Len(sorted)])

RECURSIVE SortByTimestamp(_)
SortByTimestamp(msgs) ==
    IF msgs = << >> THEN << >>
    ELSE InsertByTimestamp(SortByTimestamp(SubSeq(msgs, 1, Len(msgs) - 1)),
                           msgs[Len(msgs)])

\* line 90: role and content of the last limit messages
Strip(msgs) == [i \in 1..Len(msgs) |-> Message(msgs[i].role, msgs[i].content)]

\* lines 71-90: what the try block of get_chat_history can return
PrimaryWindows(pts, chat_key, limit) ==
    {Strip(LastN(SortByTimestamp(r), limit)) : r \in Scroll(pts, chat_key, limit * 2)}

\* qdrant delete by filter (lines 141-151)
DeletePoints(pts, chat_key) == SelectSeq(pts, LAMBDA p : p.chat_id # chat_key)

\* ------------------------------------------------------------------ operations
\* lines 97-134. ok: the upsert did not raise. tick: whether the clock moved
\* since the timestamp of the latest stored point was read (line 99); a timestamp
\* that is not upserted is dropped (the Fallback Store keeps role and content
\* only, line 131), so the clock is followed from stored point to stored point
store_message(chat_id, role, content, tick, ok) ==
    LET timestamp == now + tick
        chat_key  == Str(chat_id)
        msg       == Message(role, content)
        tried     == qdrant_client # "None"
        upsert    == IF tried THEN TryExcept(IF ok THEN "ok" ELSE "error") ELSE "none"
        r         == [NoRet EXCEPT !.op = "store", !.chat = chat_id, !.role = role,
                                   !.content = content]
    IN  /\ pc = "serving"
        /\ now' = IF upsert = "ok" THEN timestamp ELSE now
        /\ nAppends' = nAppends + 1
        /\ appended' = [appended EXCEPT ![chat_id] =
                Append(@, [msg |-> msg,
                           via |-> CASE upsert = "ok" -> "primary"
                                     [] upsert = "error" -> "lost"
                                     [] OTHER -> "fallback"])]
        /\ everAppended' = [everAppended EXCEPT ![chat_id] = @ \cup {msg}]
        /\ CASE upsert = "ok" ->
                  /\ points' = Append(points, Point(chat_id, role, content, timestamp))
                  /\ memory_fallback' = memory_fallback
                  /\ ret' = [r EXCEPT !.primary = "ok", !.status = "True"]
             [] upsert = "error" ->
                  /\ ret' = [r EXCEPT !.primary = "error", !.raised = TRUE]
                  /\ UNCHANGED <<points, memory_fallback>>
             [] OTHER ->
                  /\ points' = points
                  /\ memory_fallback' = FallbackStore(memory_fallback, chat_key, msg)
                  /\ ret' = [r EXCEPT !.primary = IF tried THEN "error" ELSE "none",
                                      !.status = "True"]
        /\ qdrant_client' = HandleAfter(qdrant_client, upsert)
        /\ UNCHANGED <<pc, QDRANT_ENV, initFailed>>

\* lines 58-95. ok: the scroll did not raise; window: what the try block returns
get_chat_history(chat_id, limit, ok) ==
    LET chat_key == Str(chat_id)
        tried    == qdrant_client # "None"
        scroll   == IF tried THEN TryExcept(IF ok THEN "ok" ELSE "error") ELSE "none"
        r        == [NoRet EXCEPT !.op = "fetch", !.chat = chat_id, !.limit = limit]
    IN  /\ pc = "serving"
        /\ CASE scroll = "ok" ->
                  \E w \in PrimaryWindows(points, chat_key, limit) :
                      ret' = [r EXCEPT !.primary = "ok", !.value = w, !.status = "list"]
             [] scroll = "error" ->
                  ret' = [r EXCEPT !.primary = "error", !.raised = TRUE]
             [] OTHER ->
                  ret' = [r EXCEPT !.primary = IF tried THEN "error" ELSE "none",
                                   !.value = FallbackGet(memory_fallback, chat_key),
                                   !.status = "list"]
        /\ qdrant_client' = HandleAfter(qdrant_client, scroll)
        /\ UNCHANGED <<pc, QDRANT_ENV, points, memory_fallback, now,
                       appended, everAppended, nAppends, initFailed>>

\* lines 136-158. ok: the delete did not raise
clear_chat_memory(chat_id, ok) ==
    LET chat_key == Str(chat_id)
        tried    == qdrant_client # "None"
        delete   == IF tried THEN TryExcept(IF ok THEN "ok" ELSE "error") ELSE "none"
        r        == [NoRet EXCEPT !.op = "clear", !.chat = chat_id]
    IN  /\ pc = "serving"
        /\ appended' = [appended EXCEPT ![chat_id] = << >>]
        /\ IF delete = "error"
           THEN /\ ret' = [r EXCEPT !.primary = "error", !.raised = TRUE]
                /\ UNCHANGED <<points, memory_fallback>>
           ELSE /\ points' = IF delete = "ok" THEN DeletePoints(points, chat_key)
                             ELSE points
                /\ memory_fallback' = FallbackClear(memory_fallback, chat_key)
                /\ ret' = [r EXCEPT !.primary = IF delete = "ok" THEN "ok"
                                                ELSE IF tried THEN "error" ELSE "none",
                                    !.status = "True"]
        /\ qdrant_client' = HandleAfter(qdrant_client, delete)
        /\ UNCHANGED <<pc, QDRANT_ENV, now, everAppended, nAppends, initFailed>>

\* lines 164-190. ok: get_collections and count did not raise
get_status_message(ok) ==
    LET tried == QDRANT_ENV /\ qdrant_client # "None"
        probe == IF tried THEN TryExcept(IF ok THEN "ok" ELSE "error") ELSE "none"
        r     == [NoRet EXCEPT !.op = "status"]
    IN  /\ pc = "serving"
        /\ ret' = IF ~QDRANT_ENV THEN [r EXCEPT !.status = "not configured"]
                  ELSE IF qdrant_client = "None"
                       THEN [r EXCEPT !.status = "connection failed"]
                  ELSE IF probe = "ok"
                       THEN [r EXCEPT !.status = "working", !.primary = "ok"]
                  ELSE IF probe = "handled"
                       THEN [r EXCEPT !.status = "error", !.primary = "error"]
                  ELSE [r EXCEPT !.primary = "error", !.raised = TRUE]
        /\ qdrant_client' = HandleAfter(qdrant_client, probe)
        /\ UNCHANGED <<pc, QDRANT_ENV, points, memory_fallback, now,
                       appended, everAppended, nAppends, initFailed>>

\* ------------------------------------------------------------------ specification
Next ==
    \/ \E ok \in BOOLEAN : Startup(ok) /\ UNCHANGED callVars
    \/ \E c \in Chats, turn \in Turns, tick \in 0..1, ok \in BOOLEAN :
          /\ nAppends < MaxAppends
          /\ store_message(c, turn[1], turn[2], tick, ok)
          /\ UNCHANGED callVars
    \/ \E c \in Chats, limit \in Limits, ok \in BOOLEAN :
          get_chat_history(c, limit, ok) /\ UNCHANGED callVars
    \/ \E c \in Chats, ok \in BOOLEAN : clear_chat_memory(c, ok) /\ UNCHANGED callVars
    \/ \E ok \in BOOLEAN : get_status_message(ok) /\ UNCHANGED callVars

Spec == Init /\ [][Next]_vars

\* One chat filled past the Fallback Store capacity: the turns alternate as
\* telegram_webhook stores them (user text, then the reply), the window is asked
\* with the handler's limit (line 242) and with one above the capacity
CapTurn(n) == IF n % 2 = 0 THEN <<"user", "hi">> ELSE <<"assistant", "hello">>
CapLimits == {10, 25}

NextCap ==
    \/ \E ok \in BOOLEAN : Startup(ok) /\ UNCHANGED callVars
    \/ \E ok \in BOOLEAN :
          /\ nAppends < MaxCapAppends
          /\ ok => Len(points) < MaxCapPoints
          /\ store_message(1, CapTurn(nAppends)[1], CapTurn(nAppends)[2], 1, ok)
          /\ UNCHANGED callVars
    \/ \E limit \in CapLimits, ok \in BOOLEAN :
          get_chat_history(1, limit, ok) /\ UNCHANGED callVars
    \/ \E ok \in BOOLEAN : clear_chat_memory(1, ok) /\ UNCHANGED callVars

SpecCap == Init /\ [][NextCap]_vars

\* One chat that holds more points than a scroll fetches (limit * 2, line 74):
\* the clock moves between any two appends, so the timestamps differ
ScrollLimits == {1}

NextScroll ==
    \/ \E ok \in BOOLEAN : Startup(ok) /\ UNCHANGED callVars
    \/ \E turn \in Turns, ok \in BOOLEAN :
          /\ nAppends < MaxScrollAppends
          /\ store_message(1, turn[1], turn[2], 1, ok)
          /\ UNCHANGED callVars
    \/ \E limit \in ScrollLimits, ok \in BOOLEAN :
          get_chat_history(1, limit, ok) /\ UNCHANGED callVars
    \/ \E ok \in BOOLEAN : clear_chat_memory(1, ok) /\ UNCHANGED callVars

SpecScroll == Init /\ [][NextScroll]_vars

\* The process started without QDRANT_URL / QDRANT_API_KEY (line 53)
InitFallbackOnly == Init /\ ~QDRANT_ENV

SpecFallbackOnly == InitFallbackOnly /\ [][Next]_vars

\* ------------------------------------------------------------------ telegram_webhook
\* lines 239-259: the calls of the try block for a regular message, in order
WebhookOrderCompletionFirst ==
    <<"get_chat_history", "get_ai_response", "store_user", "store_assistant",
      "send_message">>

WebhookOrder ==
    <<"get_chat_history", "store_user", "get_ai_response", "store_assistant",
      "send_message">>

\* limit=10 of line 242
WEBHOOK_LIMIT == 10

\* the chat whose requests are followed
WebhookChats == {1}

\* the texts of the regular messages received
WebhookTexts == {"hi", "more"}

\* line 266
System == Message("system", "You are a helpful assistant.")

\* the call telegram_webhook is about to make
At(call) == handler.step > 0 /\ WebhookOrder[handler.step] = call

\* lines 205-210, 239-240: a regular message of chat c enters the try block
WebhookReceive(c, text) ==
    /\ pc = "serving"
    /\ handler.step = 0
    /\ hsnap.n < MaxMessages
    /\ handler' = [Idle EXCEPT !.step = 1, !.chat = c, !.text = text]
    /\ hsnap' = [n |-> hsnap.n + 1, chat |-> c, text |-> text,
                 outcome |-> "running", fetched |-> FALSE, completed |-> FALSE,
                 points |-> points, fallback |-> memory_fallback,
                 appended |-> appended[c], window |-> << >>]
    /\ prompt' = << >>
    /\ UNCHANGED <<storeVars, lists, refs, threads, solo>>

\* lines 257-259: an exception of the try block ends the request
WebhookRaised(h) == [h EXCEPT !.outcome = "failed"]

\* line 242: history is the list get_chat_history returns: on the fallback path
\* the object the dict holds for the key, or the [] default (line 95); on the
\* Primary path a list built by lines 81-92
WebhookFetch(ok) ==
    LET key == Str(handler.chat)
    IN  /\ At("get_chat_history")
        /\ get_chat_history(handler.chat, WEBHOOK_LIMIT, ok)
        /\ IF ret'.raised
           THEN /\ handler' = Idle
                /\ hsnap' = WebhookRaised(hsnap)
                /\ UNCHANGED lists
           ELSE LET held == ret'.primary # "ok" /\ key \in DOMAIN refs
                IN  /\ handler' = [handler EXCEPT
                           !.step = @ + 1,
                           !.history = IF held THEN refs[key] ELSE NewRef(lists)]
                    /\ lists' = IF held THEN lists ELSE ListNew(lists, ret'.value)
                    /\ hsnap' = [hsnap EXCEPT !.fetched = TRUE,
                                              !.window = ret'.value]
        /\ UNCHANGED <<refs, prompt, threads, solo>>

\* lines 245 and 251: store_message; on its fallback path lines 129-133 act on
\* the list objects
WebhookStore(role, content, ok) ==
    LET key == Str(handler.chat)
        new == IF ret'.primary # "ok" /\ ~ret'.raised
               THEN RefStore(lists, refs, key, Message(role, content))
               ELSE [lists |-> lists, refs |-> refs]
    IN  /\ store_message(handler.chat, role, content, 1, ok)
        /\ handler' = IF ret'.raised THEN Idle ELSE [handler EXCEPT !.step = @ + 1]
        /\ hsnap' = IF ret'.raised THEN WebhookRaised(hsnap) ELSE hsnap
        /\ refs' = new.refs
        /\ lists' = Live(new.lists, Range(new.refs) \cup {handler'.history})
        /\ UNCHANGED <<prompt, threads, solo>>

WebhookStoreUser(ok) ==
    At("store_user") /\ WebhookStore("user", handler.text, ok)

WebhookStoreAssistant(ok) ==
    At("store_assistant") /\ WebhookStore("assistant", handler.reply, ok)

\* lines 263-274: the messages get_ai_response sends ("if history" skips an
\* empty list, which extends by nothing)
get_ai_response(user_text, history) ==
    <<System>> \o history \o <<Message("user", user_text)>>

\* line 248. ok: client.chat.completions.create did not raise
WebhookComplete(ok) ==
    /\ At("get_ai_response")
    /\ prompt' = get_ai_response(handler.text, lists[handler.history])
    /\ IF ok
       THEN /\ handler' = [handler EXCEPT !.step = @ + 1, !.reply = "hello"]
            /\ hsnap' = [hsnap EXCEPT !.completed = TRUE]
       ELSE /\ handler' = Idle
            /\ hsnap' = WebhookRaised(hsnap)
    /\ lists' = Live(lists, Range(refs) \cup {handler'.history})
    /\ UNCHANGED <<storeVars, refs, threads, solo>>

\* lines 254-255, 261: the reply is sent and the request ends
WebhookSend ==
    /\ At("send_message")
    /\ handler' = Idle
    /\ hsnap' = [hsnap EXCEPT !.outcome = "replied"]
    /\ lists' = Live(lists, Range(refs))
    /\ UNCHANGED <<storeVars, refs, prompt, threads, solo>>

\* lines 228-231: /bbb
WebhookClear(c, ok) ==
    LET new == IF ret'.raised THEN [lists |-> lists, refs |-> refs]
               ELSE RefClear(lists, refs, Str(c))
    IN  /\ handler.step = 0
        /\ clear_chat_memory(c, ok)
        /\ refs' = new.refs
        /\ lists' = Live(new.lists, Range(new.refs))
        /\ hsnap' = [hsnap EXCEPT !.outcome = "none"]
        /\ UNCHANGED <<handler, prompt, threads, solo>>

NextWebhook ==
    \/ \E ok \in BOOLEAN : Startup(ok) /\ UNCHANGED callVars
    \/ \E c \in WebhookChats, text \in WebhookTexts : WebhookReceive(c, text)
    \/ \E ok \in BOOLEAN : WebhookFetch(ok)
    \/ \E ok \in BOOLEAN : WebhookStoreUser(ok)
    \/ \E ok \in BOOLEAN : WebhookComplete(ok)
    \/ \E ok \in BOOLEAN : WebhookStoreAssistant(ok)
    \/ WebhookSend
    \/ \E c \in WebhookChats, ok \in BOOLEAN : WebhookClear(c, ok)

SpecWebhook == Init /\ [][NextWebhook]_vars

\* the dict of list objects and memory_fallback describe the same mapping
RefViewAgrees == memory_fallback = RefView(lists, refs)

\* ------------------------------------------------------------------ threads
\* Requests are served by threads that share memory_fallback and take no lock.
\* A thread can be switched out between any two bytecodes, so a line that reads
\* the dict and then acts on what it read is two steps. The Primary Store is
\* not configured here: every call takes its fallback path.
Busy(chat_id) == {t \in Threads : threads[t].at # "rest" /\ threads[t].chat = chat_id}

\* the objects the dict or a local of some thread refers to
ThreadRoots(d, th) == Range(d) \cup {th[t].ref : t \in Threads}

\* one step of thread t: its new locals, the new objects and the new dict
ThreadStep(t, local, h, d) ==
    /\ threads' = [threads EXCEPT ![t] = local]
    /\ refs' = d
    /\ lists' = Live(h, ThreadRoots(d, threads'))
    /\ memory_fallback' = RefView(lists', refs')

\* what a step of a thread inside a call leaves alone
stepVars == <<pc, QDRANT_ENV, qdrant_client, points, now, ret, everAppended,
              nAppends, initFailed, handler, prompt, hsnap, solo>>

\* lines 97-127: store_message is called and reaches its fallback path
ThreadCallStore(t, chat_id, role, content) ==
    /\ pc = "serving" /\ qdrant_client = "None"
    /\ threads[t].at = "rest"
    /\ nAppends < MaxThreadOps
    /\ nAppends' = nAppends + 1
    /\ threads' = [threads EXCEPT ![t] =
           [Resting EXCEPT !.at = "l129", !.op = "store", !.chat = chat_id,
                           !.msg = Message(role, content)]]
    /\ solo' = [solo EXCEPT
           !.fallback = FallbackStore(@, Str(chat_id), Message(role, content)),
           !.raced = IF Busy(chat_id) # {} THEN @ \cup {chat_id} ELSE @,
           !.overlapped = @ \/ \E c \in Chats \ {chat_id} : Busy(c) # {}]
    /\ everAppended' = [everAppended EXCEPT ![chat_id] =
                            @ \cup {Message(role, content)}]
    /\ UNCHANGED <<pc, QDRANT_ENV, qdrant_client, points, memory_fallback, now, ret,
                   appended, initFailed, lists, refs, handler, prompt, hsnap>>

\* lines 136-155: clear_chat_memory is called and reaches line 155
ThreadCallClear(t, chat_id) ==
    /\ pc = "serving" /\ qdrant_client = "None"
    /\ threads[t].at = "rest"
    /\ nAppends < MaxThreadOps
    /\ nAppends' = nAppends + 1
    /\ threads' = [threads EXCEPT ![t] =
           [Resting EXCEPT !.at = "l156", !.op = "clear", !.chat = chat_id]]
    /\ solo' = [solo EXCEPT
           !.fallback = FallbackClear(@, Str(chat_id)),
           !.raced = IF Busy(chat_id) # {} THEN @ \cup {chat_id} ELSE @,
           !.cleared = @ \cup {chat_id},
           !.overlapped = @ \/ \E c \in Chats \ {chat_id} : Busy(c) # {}]
    /\ appended' = [appended EXCEPT ![chat_id] = << >>]
    /\ UNCHANGED <<pc, QDRANT_ENV, qdrant_client, points, memory_fallback, now, ret,
                   everAppended, initFailed, lists, refs, handler, prompt, hsnap>>

\* line 129: if chat_key not in memory_fallback
Line129(t) ==
    LET me == threads[t]
    IN  /\ me.at = "l129"
        /\ ThreadStep(t, [me EXCEPT !.at = IF Str(me.chat) \in DOMAIN refs
                                           THEN "l131" ELSE "l130"], lists, refs)
        /\ UNCHANGED <<stepVars, appended>>

\* line 130: memory_fallback[chat_key] = []
Line130(t) ==
    LET me == threads[t]
    IN  /\ me.at = "l130"
        /\ ThreadStep(t, [me EXCEPT !.at = "l131"], ListNew(lists, << >>),
                      DictSet(refs, Str(me.chat), NewRef(lists)))
        /\ UNCHANGED <<stepVars, appended>>

\* line 131, memory_fallback[chat_key]: the list object is looked up
Line131Load(t) ==
    LET me == threads[t]
    IN  /\ me.at = "l131"
        /\ ThreadStep(t, [me EXCEPT !.at = "l131_append",
                                    !.ref = refs[Str(me.chat)]], lists, refs)
        /\ UNCHANGED <<stepVars, appended>>

\* line 131, .append({...}) on the object looked up
Line131Append(t) ==
    LET me == threads[t]
    IN  /\ me.at = "l131_append"
        /\ ThreadStep(t, [me EXCEPT !.at = "l133", !.ref = 0],
                      ListAppend(lists, me.ref, me.msg), refs)
        /\ UNCHANGED <<stepVars, appended>>

\* line 133, right-hand side memory_fallback[chat_key]: the object is looked up
Line133Load(t) ==
    LET me == threads[t]
    IN  /\ me.at = "l133"
        /\ ThreadStep(t, [me EXCEPT !.at = "l133_slice",
                                    !.ref = refs[Str(me.chat)]], lists, refs)
        /\ UNCHANGED <<stepVars, appended>>

\* line 133, [-20:]: a new list object holding the last 20 items
Line133Slice(t) ==
    LET me == threads[t]
    IN  /\ me.at = "l133_slice"
        /\ ThreadStep(t, [me EXCEPT !.at = "l133_store", !.ref = NewRef(lists)],
                      ListNew(lists, LastN(lists[me.ref], FALLBACK_CAPACITY)), refs)
        /\ UNCHANGED <<stepVars, appended>>

\* line 133, memory_fallback[chat_key] = <the slice>, and line 134: return True
Line133Store(t) ==
    LET me == threads[t]
    IN  /\ me.at = "l133_store"
        /\ ThreadStep(t, Resting, lists, DictSet(refs, Str(me.chat), me.ref))
        /\ appended' = [appended EXCEPT ![me.chat] =
                            Append(@, [msg |-> me.msg, via |-> "fallback"])]
        /\ UNCHANGED stepVars

\* line 156: if chat_key in memory_fallback (else line 158: return True)
Line156(t) ==
    LET me == threads[t]
    IN  /\ me.at = "l156"
        /\ ThreadStep(t, IF Str(me.chat) \in DOMAIN refs
                         THEN [me EXCEPT !.at = "l157"] ELSE Resting, lists, refs)
        /\ UNCHANGED <<stepVars, appended>>

\* line 157: memory_fallback[chat_key] = [], and line 158: return True
Line157(t) ==
    LET me == threads[t]
    IN  /\ me.at = "l157"
        /\ ThreadStep(t, Resting, ListNew(lists, << >>),
                      DictSet(refs, Str(me.chat), NewRef(lists)))
        /\ UNCHANGED <<stepVars, appended>>

NextThreads ==
    \/ \E ok \in BOOLEAN : Startup(ok) /\ UNCHANGED callVars
    \/ \E t \in Threads, c \in Chats, turn \in Turns :
          ThreadCallStore(t, c, turn[1], turn[2])
    \/ \E t \in Threads, c \in Chats : ThreadCallClear(t, c)
    \/ \E t \in Threads : Line129(t)
    \/ \E t \in Threads : Line130(t)
    \/ \E t \in Threads : Line131Load(t)
    \/ \E t \in Threads : Line131Append(t)
    \/ \E t \in Threads : Line133Load(t)
    \/ \E t \in Threads : Line133Slice(t)
    \/ \E t \in Threads : Line133Store(t)
    \/ \E t \in Threads : Line156(t)
    \/ \E t \in Threads : Line157(t)

SpecThreads == InitFallbackOnly /\ [][NextThreads]_vars

\* no call is in progress
Quiet == \A t \in Threads : threads[t].at = "rest"

\* ------------------------------------------------------------------ history views
\* the role/content pairs of a history, in append order
Pairs(h) == [i \in 1..Len(h) |-> h[i].msg]

\* the n most recent entries of a history, oldest first
MostRecent(h, n) ==
    LET m == IF Len(h) < n THEN Len(h) ELSE n
    IN  [i \in 1..m |-> h[Len(h) - m + i]]

\* the part of a history that went to one store
Via(h, store) == SelectSeq(h, LAMBDA e : e.via = store)

\* every value get_chat_history(chat_id, limit) can return in the current state
WindowsOf(client, pts, mf, chat_id, limit) ==
    {FallbackGet(mf, Str(chat_id))}
    \cup (IF client # "None" THEN PrimaryWindows(pts, Str(chat_id), limit) ELSE {})

Windows(chat_id, limit) ==
    WindowsOf(qdrant_client, points, memory_fallback, chat_id, limit)

\* the stored points of a chat carry pairwise different timestamps
DistinctTimestamps(chat_key) ==
    \A i, j \in Matching(points, chat_key) :
        i # j => points[i].timestamp # points[j].timestamp

\* ------------------------------------------------------------------ claims

\* C1 as stated: after every store_message on chat C the new record is the last
\* element of the Fallback Store sequence of C, also when the upsert succeeded.
C1_AlwaysInFallback ==
    ret.op = "store" =>
        /\ Str(ret.chat) \in DOMAIN memory_fallback
        /\ memory_fallback[Str(ret.chat)] # << >>
        /\ memory_fallback[Str(ret.chat)][Len(memory_fallback[Str(ret.chat)])]
               = Message(ret.role, ret.content)

\* C1 amended: store_message writes the record to the Fallback Store exactly
\* when the Primary Store is unset or its upsert raised, and then the record is
\* the last element of the chat's sequence; when the upsert succeeds the record
\* becomes the newest point of the Primary Store and the Fallback Store is left
\* as it was.
C1_FallbackOnlyWithoutPrimary ==
    [][ret'.op = "store" =>
         LET key == Str(ret'.chat)
             msg == Message(ret'.role, ret'.content)
         IN  IF ret'.primary = "ok"
             THEN /\ memory_fallback' = memory_fallback
                  /\ Len(points') = Len(points) + 1
                  /\ points'[Len(points')].chat_id = key
                  /\ Strip(<<points'[Len(points')]>>) = <<msg>>
             ELSE /\ points' = points
                  /\ key \in DOMAIN memory_fallback'
                  /\ memory_fallback'[key] # << >>
                  /\ memory_fallback'[key][Len(memory_fallback'[key])] = msg
                  /\ \A k \in DOMAIN memory_fallback :
                        k # key => memory_fallback'[k] = memory_fallback[k]]_vars

\* C1 witness: a first append whose upsert raised sits in the Fallback Store, a
\* second one whose upsert succeeded sits in the Primary Store only.
C1_Witness ==
    /\ ret.op = "store" /\ ret.primary = "ok"
    /\ Len(appended[ret.chat]) = 2
    /\ appended[ret.chat][1].via = "fallback"
    /\ Len(memory_fallback[Str(ret.chat)]) = 1
    /\ Len(points) = 1

\* C2: get_chat_history(C, k) never returns more than k records.
C2_AtMostLimit == ret.op = "fetch" => Len(ret.value) <= ret.limit

\* C3: get_chat_history(C, k) returns exactly the last k of the appends made to C
\* since its last clear, oldest first (all of them when there are fewer than k).
C3_LastKAppended ==
    ret.op = "fetch" => ret.value = MostRecent(Pairs(appended[ret.chat]), ret.limit)

\* C4: a get_chat_history on C that comes right after a clear_chat_memory on C
\* returns the empty sequence, whatever the Primary Store calls did.
C4_ClearThenEmpty ==
    [][(ret.op = "clear" /\ ret'.op = "fetch" /\ ret'.chat = ret.chat)
         => ret'.value = << >>]_vars

\* C5: no operation lets an exception out: whatever each Primary Store call did,
\* store_message and clear_chat_memory return True, get_chat_history returns a
\* list and get_status_message returns one of its four texts.
C5_NoOutwardFailure ==
    /\ ret.raised = FALSE
    /\ ret.op \in {"store", "clear"} => ret.status = "True"
    /\ ret.op = "fetch" => ret.status = "list"
    /\ ret.op = "status" =>
          ret.status \in {"not configured", "connection failed", "working", "error"}

\* C5 witness: a clear whose delete raised has returned True.
C5_Witness ==
    /\ ret.op = "clear" /\ ret.primary = "error" /\ ret.status = "True"
    /\ points # << >>

\* C6: each Fallback Store sequence holds at most FALLBACK_CAPACITY records, and
\* it is the last FALLBACK_CAPACITY of the appends that reached the Fallback
\* Store since the chat's last clear, in append order.
C6_FallbackBounded ==
    /\ \A key \in DOMAIN memory_fallback :
          Len(memory_fallback[key]) <= FALLBACK_CAPACITY
    /\ \A c \in Chats :
          FallbackGet(memory_fallback, Str(c))
              = MostRecent(Pairs(Via(appended[c], "fallback")), FALLBACK_CAPACITY)

\* C6 witness: more than FALLBACK_CAPACITY appends reached the Fallback Store of
\* one chat, which holds FALLBACK_CAPACITY records.
C6_Witness ==
    \E c \in Chats :
        /\ Len(Via(appended[c], "fallback")) > FALLBACK_CAPACITY
        /\ Len(FallbackGet(memory_fallback, Str(c))) = FALLBACK_CAPACITY

\* C7: a store_message or clear_chat_memory on chat A leaves the set of values
\* get_chat_history(B, k) can return unchanged for every other chat B and every
\* k, and every record of a window of B was appended to B.
C7_PartitionIsolation ==
    /\ [][ret'.op \in {"store", "clear"} =>
             \A b \in Chats \ {ret'.chat} : \A k \in Limits :
                 WindowsOf(qdrant_client', points', memory_fallback', b, k)
                     = Windows(b, k)]_vars
    /\ [](\A b \in Chats : \A k \in Limits : \A w \in Windows(b, k) :
             \A i \in 1..Len(w) : w[i] \in everAppended[b])

\* C7 witness: chat 1 has a non-empty window, chat 2 was given a message chat 1
\* never got, in each store.
C7_Witness ==
    /\ Len(points) = 1 /\ points[1].chat_id = Str(2)
    /\ FallbackGet(memory_fallback, Str(1)) # << >>
    /\ everAppended[2] \ everAppended[1] # {}
    /\ ret.op = "store"

\* C8: with a configured Primary Store whose every call raises, n appends to a
\* chat (n at most the limit and the capacity) followed by get_chat_history
\* return the n pairs in append order; a Primary Store that answered every call
\* can return that same window, and returns no other when the timestamps differ.
C8_FailingPrimarySameResult ==
    \A c \in Chats : \A k \in Limits :
        LET h == appended[c]
        IN  (qdrant_client = "client" /\ Len(h) <= k /\ Len(h) <= FALLBACK_CAPACITY)
            => /\ (/\ Via(h, "fallback") = h
                   /\ ret.op = "fetch" /\ ret.chat = c /\ ret.limit = k
                   /\ ret.primary = "error")
                  => ret.value = Pairs(h)
               /\ (/\ Via(h, "primary") = h
                   /\ Cardinality(Matching(points, Str(c))) = Len(h))
                  => /\ Pairs(h) \in PrimaryWindows(points, Str(c), k)
                     /\ DistinctTimestamps(Str(c))
                           => PrimaryWindows(points, Str(c), k) = {Pairs(h)}

\* C8 witness: two appends whose upserts raised, then a window whose scroll
\* raised, holding both pairs.
C8_Witness ==
    /\ qdrant_client = "client"
    /\ ret.op = "fetch" /\ ret.primary = "error" /\ ret.limit = 2
    /\ Len(appended[ret.chat]) = 2
    /\ Via(appended[ret.chat], "fallback") = appended[ret.chat]
    /\ Len(ret.value) = 2

\* C9 as stated: a window asked while the Primary Store is down holds the most
\* recent records of the chat up to the capacity, those appended while the
\* Primary Store was healthy included.
C9_OutageKeepsHistory ==
    (ret.op = "fetch" /\ ret.primary = "error")
        => ret.value = MostRecent(Pairs(appended[ret.chat]), FALLBACK_CAPACITY)

\* C9 amended: a window asked while the Primary Store is down is the Fallback
\* Store sequence of the chat: the most recent, up to the capacity, of the
\* records since the chat's last clear whose upsert raised or that were appended
\* with the handle unset. Records upserted while the Primary Store was healthy
\* are not in it.
C9_OutageWindowIsFallback ==
    (ret.op = "fetch" /\ ret.primary = "error")
        => ret.value = MostRecent(Pairs(Via(appended[ret.chat], "fallback")),
                             FALLBACK_CAPACITY)

\* C9 witness: one record upserted, the next one's upsert raised, and the window
\* asked during the outage holds the second record only.
C9_Witness ==
    /\ ret.op = "fetch" /\ ret.primary = "error"
    /\ Len(appended[ret.chat]) = 2
    /\ appended[ret.chat][1].via = "primary"
    /\ appended[ret.chat][2].via = "fallback"
    /\ ret.value = <<appended[ret.chat][2].msg>>

\* C10: when the start-up try block raised, the process serves with the handle
\* unset, and no operation calls the Primary Store: appends go to the Fallback
\* Store, windows come from it, and no point is ever stored.
C10_InitFailureFallbackOnly ==
    initFailed =>
        /\ pc = "serving"
        /\ qdrant_client = "None"
        /\ points = << >>
        /\ ret.op # "startup" => ret.primary = "none"
        /\ ret.op = "fetch" => ret.value = FallbackGet(memory_fallback, Str(ret.chat))
        /\ \A c \in Chats : Via(appended[c], "fallback") = appended[c]

\* C10 witness: after a failed start-up an append has gone to the Fallback Store.
C10_Witness ==
    /\ initFailed /\ ret.op = "store"
    /\ FallbackGet(memory_fallback, Str(ret.chat)) # << >>

\* C11: a window from the Primary Store lists records of the chat by
\* non-decreasing timestamp, those of equal timestamp in the order they were
\* upserted, whatever order the scroll returned them in.
C11_TimestampThenInsertionOrder ==
    (ret.op = "fetch" /\ ret.primary = "ok") =>
        \E s \in Orders(Matching(points, Str(ret.chat)), Len(ret.value)) :
            /\ ret.value = Strip([j \in 1..Len(s) |-> points[s[j]]])
            /\ \A a, b \in 1..Len(s) :
                  a < b => \/ points[s[a]].timestamp < points[s[b]].timestamp
                           \/ /\ points[s[a]].timestamp = points[s[b]].timestamp
                              /\ s[a] < s[b]

\* C17: when the scroll is answered and the chat holds more than 2 * limit
\* points (of pairwise different timestamps), the window is the limit most
\* recent records of the chat.
C17_MostRecentByTimestamp ==
    (/\ ret.op = "fetch" /\ ret.primary = "ok"
     /\ Cardinality(Matching(points, Str(ret.chat))) > 2 * ret.limit
     /\ DistinctTimestamps(Str(ret.chat)))
        => ret.value
             = Strip(MostRecent(SortByTimestamp(
                   SelectSeq(points, LAMBDA p : p.chat_id = Str(ret.chat))),
                   ret.limit))

\* C16: no operation changes qdrant_client after start-up; with the handle set
\* every get_chat_history, store_message and clear_chat_memory calls the
\* Primary Store, whatever the calls before it did; a window whose scroll
\* raised is the Fallback Store list (the scroll is not tried again).
C16_FailureAffectsOneCall ==
    [][/\ pc = "serving" => qdrant_client' = qdrant_client
       /\ (qdrant_client = "client" /\ ret'.op \in {"fetch", "store", "clear"})
             => ret'.primary \in {"ok", "error"}
       /\ (ret'.op = "fetch" /\ ret'.primary = "error")
             => ret'.value = FallbackGet(memory_fallback, Str(ret'.chat))]_vars

\* C16 witness: an upsert raised, the next one succeeded, and the scroll after
\* them was answered.
C16_Witness ==
    /\ ret.op = "fetch" /\ ret.primary = "ok"
    /\ Len(appended[ret.chat]) = 2
    /\ appended[ret.chat][1].via = "fallback"
    /\ appended[ret.chat][2].via = "primary"
    /\ ret.value # << >>

\* C18: clear_chat_memory(C) leaves the Fallback Store list of C empty, also
\* when the delete raised, and changes no other entry of the dict.
C18_ClearEmptiesFallback ==
    [][ret'.op = "clear" =>
         /\ FallbackGet(memory_fallback', Str(ret'.chat)) = << >>
         /\ ret'.status = "True"
         /\ \A k \in DOMAIN memory_fallback \cup DOMAIN memory_fallback' :
               k # Str(ret'.chat)
                   => /\ k \in DOMAIN memory_fallback /\ k \in DOMAIN memory_fallback'
                      /\ memory_fallback'[k] = memory_fallback[k]]_vars

\* C18 witness: a clear whose delete raised emptied the list of its chat and the
\* other chat kept its record.
C18_Witness ==
    /\ ret.op = "clear" /\ ret.primary = "error"
    /\ Str(ret.chat) \in DOMAIN memory_fallback
    /\ memory_fallback[Str(ret.chat)] = << >>
    /\ \E k \in DOMAIN memory_fallback : memory_fallback[k] # << >>

\* C19: the keys of memory_fallback only grow: a key is added only by a
\* store_message that did not end in a successful upsert, and it is the key of
\* its chat; clear_chat_memory and get_chat_history add and remove none.
C19_KeysOnlyGrow ==
    [][/\ DOMAIN memory_fallback \subseteq DOMAIN memory_fallback'
       /\ DOMAIN memory_fallback' # DOMAIN memory_fallback
             => /\ ret'.op = "store" /\ ret'.primary # "ok"
                /\ DOMAIN memory_fallback'
                       = DOMAIN memory_fallback \cup {Str(ret'.chat)}]_vars

\* C19 witness: a clear of a chat that has no entry, while another chat has one,
\* created none.
C19_Witness ==
    /\ ret.op = "clear"
    /\ Str(ret.chat) \notin DOMAIN memory_fallback
    /\ DOMAIN memory_fallback # {}

\* the records store_message appended for the latest regular message
NewRecords == SubSeq(appended[hsnap.chat], Len(hsnap.appended) + 1,
                     Len(appended[hsnap.chat]))

\* the latest regular message left exactly the first k of its user record and
\* its assistant record in the stores, each in the store its append reached
Recorded(k) ==
    LET key  == Str(hsnap.chat)
        both == <<Message("user", hsnap.text), Message("assistant", "hello")>>
        toFb == Pairs(Via(NewRecords, "fallback"))
    IN  /\ Len(appended[hsnap.chat]) = Len(hsnap.appended) + k
        /\ Pairs(NewRecords) = SubSeq(both, 1, k)
        /\ Strip(points) = Strip(hsnap.points) \o Pairs(Via(NewRecords, "primary"))
        /\ IF toFb = << >>
           THEN memory_fallback = hsnap.fallback
           ELSE /\ DOMAIN memory_fallback = DOMAIN hsnap.fallback \cup {key}
                /\ memory_fallback[key] =
                       MostRecent(FallbackGet(hsnap.fallback, key) \o toFb,
                                  FALLBACK_CAPACITY)
                /\ \A k2 \in DOMAIN hsnap.fallback \ {key} :
                       memory_fallback[k2] = hsnap.fallback[k2]

\* C12 as stated: no record of a regular message is appended before its
\* completion call has returned, so while the call has not returned, and after
\* it failed, both stores are as they were when the message came in.
C12_NoAppendBeforeCompletion ==
    (\/ hsnap.outcome = "failed"
     \/ hsnap.outcome = "running" /\ ~hsnap.completed)
        => points = hsnap.points /\ memory_fallback = hsnap.fallback

\* C12 amended: the steps run in the order fetch window, append user record,
\* invoke completion, append assistant record. No record is appended before the
\* window was fetched, the user record is appended before the completion call is
\* made and the assistant record only after it returned; a failed completion
\* leaves exactly the user record appended, a request that replied both records.
C12_UserAppendBeforeCompletion ==
    /\ hsnap.outcome = "failed" => Recorded(1)
    /\ hsnap.outcome = "replied" => Recorded(2)
    /\ hsnap.outcome = "running" =>
          \E k \in 0..2 : /\ Recorded(k)
                          /\ k >= 1 => hsnap.fetched
                          /\ (prompt # << >> \/ hsnap.completed) => k >= 1
                          /\ k = 2 => hsnap.completed

\* a completion call failed for a message of a chat that had records already
C12_Witness ==
    /\ hsnap.outcome = "failed"
    /\ prompt # << >>
    /\ hsnap.appended # << >>
    /\ Recorded(1)
\* C13: the history handed to the completion call is the value get_chat_history
\* returned for the message, whatever was appended since: the prompt is the
\* system message, that window, and the text of the message once, at the end.
C13_PromptIsFetchedWindow ==
    prompt # << >> =>
        prompt = <<System>> \o hsnap.window \o <<Message("user", hsnap.text)>>
\* how often msg occurs in a sequence of messages
Count(msgs, msg) == Cardinality({i \in 1..Len(msgs) : msgs[i] = msg})

\* C14: once the store_message calls on a chat have returned, with no clear of
\* the chat and no more records than the capacity, the Fallback Store sequence
\* of the chat holds every record appended, each as often as it was appended,
\* however the steps of the calls were interleaved.
C14_NoLostAppend ==
    \A c \in Chats :
        (Quiet /\ c \notin solo.cleared /\ Len(appended[c]) <= FALLBACK_CAPACITY) =>
            LET s == FallbackGet(memory_fallback, Str(c))
            IN  /\ Len(s) = Len(appended[c])
                /\ \A e \in Range(appended[c]) :
                       Count(s, e.msg) = Count(Pairs(appended[c]), e.msg)

\* C15: when the calls on a chat never overlapped one another, its Fallback
\* Store sequence, once they returned, is what these calls alone produce,
\* whatever calls for other chats ran between their steps.
C15_OtherChatsDoNotInterfere ==
    \A c \in Chats :
        (Busy(c) = {} /\ c \notin solo.raced) =>
            /\ Str(c) \in DOMAIN memory_fallback <=> Str(c) \in DOMAIN solo.fallback
            /\ FallbackGet(memory_fallback, Str(c)) = FallbackGet(solo.fallback, Str(c))

\* calls for the two chats overlapped and both left a record
C15_Witness ==
    /\ Quiet
    /\ solo.raced = {}
    /\ solo.overlapped
    /\ \A c \in Chats : FallbackGet(memory_fallback, Str(c)) # << >>
====
